---- MODULE Spec2Model ----
(***************************************************************************)
(* Model of the Excel task pane of excel_MVP: the chat flow of ModelChat   *)
(* (sendMessage), its mutation executor (executeActions) and the workbook  *)
(* behind Excel.run: commands are queued on a request context and take     *)
(* effect, in order, when context.sync() is awaited.                       *)
(***************************************************************************)
EXTENDS Integers, Sequences, FiniteSets, TLC

VARIABLES
    sheets,         \* names of the worksheets of the workbook
    grid,           \* sheet name -> cell -> cell record (the live document)
    messages,       \* ModelChat state: the chat transcript
    input,          \* ModelChat state: the text of the input box
    loading,        \* ModelChat state
    agentMode,      \* ModelChat state: the Agent Mode checkbox
    sentAgentMode,  \* agentMode as closed over by the running sendMessage
    chatPc,         \* position of the running sendMessage
    sends,          \* number of messages sent so far
    actions,        \* parsedData.actions of the response being handled
    execPc,         \* position of executeActions
    execIdx,        \* index of the action the for-loop is at (1-based)
    queue,          \* commands queued on the request context, not yet synced
    attempted,      \* indices whose loop body has been entered
    queuedLog,      \* indices whose commands have been queued, in order
    applied,        \* indices whose commands the workbook has carried out
    failedIdx,      \* index whose loop body threw, 0 if none
    lastError,      \* the error executeActions rejected with
    syncCount,      \* context.sync() calls of the current batch
    discardCount,   \* times the pending queue of the batch was dropped
    exPc,           \* position of the running extractModelSnapshot
    exSheets,       \* extractModelSnapshot: sheets.items as loaded
    exIdx,          \* extractModelSnapshot: index of the sheet being read
    exLoaded,       \* extractModelSnapshot: usedRange as loaded
    exPos,          \* extractModelSnapshot: cell whose format is being loaded
    exCells,        \* extractModelSnapshot: cells of the sheet being read
    exSnap,         \* extractModelSnapshot: snapshot built so far
    exReads,        \* extractModelSnapshot: cells whose format load was queued
    modelData,      \* sendMessage: the snapshot extractModelSnapshot returned
    activeTab,      \* App state: the tab shown
    checking,       \* ErrorChecker state
    ecErrors,       \* ErrorChecker state: errors
    ecStatus,       \* ErrorChecker state: status
    ecPc,           \* position of the running runErrorCheck
    ecSheets,       \* extractModelData: sheets.items as loaded
    ecIdx,          \* extractModelData: index of the sheet being read
    ecData,         \* extractModelData: modelData built so far
    ecResponse,     \* runErrorCheck: response.data of the request
    view,           \* the workbook's active sheet and selection
    colIn,          \* colToNum: number whose column letters are decoded
    colLetters,     \* colToNum: its argument
    colOut,         \* colToNum: its result
    detIn,          \* detect: the formulas of the snapshot it is given
    detOut,         \* detect: the findings it returned
    sessions,       \* App state: the uploaded PDF sessions
    sentSessionIds, \* sendMessage: payload.sessionIds of the last request
    removedId,      \* removeSession: its last argument
    upPc,           \* per handleUpload in flight: its position
    upData,         \* per handleUpload: modelData of insertModelIntoExcel
    upAdd,          \* per handleUpload: the worksheets.add queued, if any
    upRuns,         \* insertModelIntoExcel: calls that resolved
    upError         \* per handleUpload: what rejected its last call

docVars == <<sheets, grid>>
chatVars == <<messages, input, loading, agentMode, sentAgentMode, chatPc, sends>>
execVars == <<actions, execPc, execIdx, queue, attempted, queuedLog, applied,
              failedIdx, lastError, syncCount, discardCount>>
extrVars == <<exPc, exSheets, exIdx, exLoaded, exPos, exCells, exSnap, exReads,
              modelData>>
ecVars == <<checking, ecErrors, ecStatus, ecPc, ecSheets, ecIdx, ecData,
            ecResponse, view>>
pureVars == <<colIn, colLetters, colOut, detIn, detOut>>
appVars == <<sessions, sentSessionIds, removedId, upPc, upData, upAdd, upRuns, upError>>
restVars == <<extrVars, activeTab, appVars, ecVars, pureVars>>
vars == <<sheets, grid, messages, input, loading, agentMode, sentAgentMode,
          chatPc, sends, actions, execPc, execIdx, queue, attempted, queuedLog,
          applied, failedIdx, lastError, syncCount, discardCount, exPc,
          exSheets, exIdx, exLoaded, exPos, exCells, exSnap, exReads, modelData,
          activeTab, checking, ecErrors, ecStatus, ecPc, ecSheets, ecIdx,
          ecData, ecResponse, view, colIn, colLetters, colOut, detIn, detOut,
          sessions, sentSessionIds, removedId, upPc, upData, upAdd, upRuns,
          upError>>

-----------------------------------------------------------------------------
(* Bounds *)

MaxSends == 1
MaxActions == 3
MaxRow == 2
MaxCol == 3
MaxColumnNumber == 10000
MaxChatSends == 2
MaxSessions == 3
MaxRuns == 2

-----------------------------------------------------------------------------
(* Addresses.  A column is the sequence of the char codes of its letters,  *)
(* a cell reference a column and a row, an address the list of references  *)
(* that split(':') yields.                                                 *)

RECURSIVE colToNumFromZero(_, _, _)
colToNumFromZero(col, i, num) ==
    IF i > Len(col) THEN num
    ELSE colToNumFromZero(col, i + 1, num * 26 + (col[i] - 65))

RECURSIVE colToNumFrom(_, _, _)
colToNumFrom(col, i, num) ==
    IF i > Len(col) THEN num
    ELSE colToNumFrom(col, i + 1, num * 26 + (col[i] - 64))

colToNum(col) == colToNumFrom(col, 1, 0)

CellA1 == [col |-> <<65>>, row |-> 1]
CellB1 == [col |-> <<66>>, row |-> 1]
CellC1 == [col |-> <<67>>, row |-> 1]
CellC2 == [col |-> <<67>>, row |-> 2]

-----------------------------------------------------------------------------
(* Mutation actions as the backend returns them.  A text is the sequence   *)
(* of the tokens of a string ("=" first when it is a formula); a payload   *)
(* is a list of rows of texts.  format is <<>> when the action carries no  *)
(* format object, else one record whose "" fields are the absent options.  *)

TxtOne == <<"1">>
TxtFormula == <<"=", "A1">>
TxtNoMarker == <<"A1">>
TxtDangling == <<"=", "A1", "+">>
\* An object and an array in the place of a text.
TxtObject == <<"{", "}">>
TxtArray == <<"[", "]">>

NoFormat == <<>>
FormatOf(b, nf, bg, fill, fc) ==
    <<[bold |-> b, numberFormat |-> nf, bgColor |-> bg, fillColor |-> fill,
       fontColor |-> fc]>>

Action(t, s, a, v, f, vs, fs, fmt) ==
    [type |-> t, sheet |-> s, addr |-> a, value |-> v, formula |-> f,
     values |-> vs, formulas |-> fs, format |-> fmt]

Grid2x3(t) == <<<<t, t, t>>, <<t, t, t>>>>
Grid2x2(t) == <<<<t, t>>, <<t, t>>>>

SetCellValue(s, c, v) == Action("setCellValue", s, <<c>>, v, <<>>, <<>>, <<>>, NoFormat)
SetFormula(s, c, f) == Action("setFormula", s, <<c>>, <<>>, f, <<>>, <<>>, NoFormat)
SetRangeValues(s, a, vs) == Action("setRangeValues", s, a, <<>>, <<>>, vs, <<>>, NoFormat)
SetRangeFormulas(s, a, fs) == Action("setRangeFormulas", s, a, <<>>, <<>>, <<>>, fs, NoFormat)
ClearRange(s, a) == Action("clearRange", s, a, <<>>, <<>>, <<>>, <<>>, NoFormat)
FormatCell(s, c, fmt) == Action("formatCell", s, <<c>>, <<>>, <<>>, <<>>, <<>>, fmt)

RangeA1C2 == <<CellA1, CellC2>>

\* The actions a response may carry in this model.
ActionPool ==
    { SetCellValue("Sheet1", CellA1, TxtOne),
      SetCellValue("Ghost", CellC1, TxtOne),
      SetFormula("Sheet1", CellB1, TxtDangling),
      SetFormula("Sheet1", CellB1, TxtNoMarker),
      SetRangeValues("Sheet1", RangeA1C2, Grid2x2(TxtOne)),
      SetRangeValues("Sheet1", RangeA1C2, Grid2x3(TxtOne)),
      SetRangeFormulas("Sheet1", RangeA1C2, Grid2x2(TxtFormula)),
      ClearRange("Sheet1", RangeA1C2) }

Batches == UNION { [1..n -> ActionPool] : n \in 1..MaxActions }

-----------------------------------------------------------------------------
(* executeActions: what one pass of the loop body does with an action.     *)

ExpectedRows(a) == a.addr[2].row - a.addr[1].row + 1
ExpectedCols(a) == colToNum(a.addr[2].col) - colToNum(a.addr[1].col) + 1
ActualRows(a) == Len(a.values)
ActualCols(a) == IF Len(a.values) > 0 THEN Len(a.values[1]) ELSE 0

NoError == [kind |-> "none", range |-> <<>>, expected |-> <<>>, actual |-> <<>>]
ErrorOf(k) == [kind |-> k, range |-> <<>>, expected |-> <<>>, actual |-> <<>>]

\* The dimension check of setRangeValues: made only for a two-part address.
DimensionMismatch(a) ==
    /\ a.type = "setRangeValues"
    /\ Len(a.addr) = 2
    /\ (ExpectedRows(a) # ActualRows(a) \/ ExpectedCols(a) # ActualCols(a))

\* The error the loop body throws for the action, NoError if it throws none.
ThrownBy(a) ==
    IF DimensionMismatch(a)
    THEN [kind |-> "DimensionMismatch", range |-> a.addr,
          expected |-> <<ExpectedRows(a), ExpectedCols(a)>>,
          actual |-> <<ActualRows(a), ActualCols(a)>>]
    ELSE IF a.type = "formatCell" /\ a.format = NoFormat
    THEN ErrorOf("TypeError")
    ELSE NoError

NoFormatChange == [bold |-> FALSE, numberFormat |-> "", fill |-> "", fontColor |-> ""]

\* The format properties formatCell assigns: an option is assigned when truthy.
FormatChange(fmt) ==
    [bold |-> fmt.bold, numberFormat |-> fmt.numberFormat,
     fill |-> fmt.bgColor, fontColor |-> fmt.fontColor]

\* The commands one pass queues for action a at index i: the worksheet is
\* looked up by name, then the type-specific property is assigned.
Command(a, i) ==
    [idx |-> i, sheet |-> a.sheet, addr |-> a.addr,
     op |-> CASE a.type = "setCellValue" -> "values"
              [] a.type = "setFormula" -> "formulas"
              [] a.type = "setRangeValues" -> "values"
              [] a.type = "setRangeFormulas" -> "formulas"
              [] a.type = "clearRange" -> "clear"
              [] a.type = "formatCell" -> "format"
              [] OTHER -> "none",
     payload |-> CASE a.type = "setCellValue" -> <<<<a.value>>>>
                   [] a.type = "setFormula" -> <<<<a.formula>>>>
                   [] a.type = "setRangeValues" -> a.values
                   [] a.type = "setRangeFormulas" -> a.formulas
                   [] OTHER -> <<>>,
     change |-> IF a.type = "formatCell" /\ a.format # NoFormat
                THEN FormatChange(a.format[1]) ELSE NoFormatChange]

EnqueueFront(q, c) == <<c>> \o q

\* The for-of loop visits the actions in list order; each pass adds to the
\* end of what the context holds.
Enqueue(q, c) == Append(q, c)

-----------------------------------------------------------------------------
(* The workbook behind the request context.  A queued command takes effect *)
(* when context.sync() is awaited; the commands of one sync are carried    *)
(* out in queue order and the first that fails rejects the sync, leaving   *)
(* the effects of the commands before it in place.                         *)

Cells == (1..MaxRow) \X (1..MaxCol)

EmptyCell ==
    [value |-> <<>>, formula |-> <<>>, bold |-> FALSE,
     numberFormat |-> "General", fill |-> "", fontColor |-> ""]

\* The rows and columns an address designates.
AddrRows(addr) ==
    IF Len(addr) = 2 THEN addr[1].row..addr[2].row ELSE {addr[1].row}
AddrCols(addr) ==
    IF Len(addr) = 2 THEN colToNumFrom(addr[1].col, 1, 0)..colToNumFrom(addr[2].col, 1, 0)
    ELSE {colToNumFrom(addr[1].col, 1, 0)}
AddrCells(addr) == (AddrRows(addr) \X AddrCols(addr)) \cap Cells
AddrFirstRow(addr) == addr[1].row
AddrFirstCol(addr) == colToNumFrom(addr[1].col, 1, 0)

IsFormulaText(t) == Len(t) > 0 /\ t[1] = "="
\* A formula the workbook can parse: something follows "=", no dangling operator.
ParsesAsFormula(t) == Len(t) > 1 /\ t[Len(t)] # "+"

PayloadFits(addr, payload) ==
    /\ Len(payload) = Cardinality(AddrRows(addr))
    /\ \A r \in 1..Len(payload) : Len(payload[r]) = Cardinality(AddrCols(addr))

\* A cell takes a string, a number or a boolean: the workbook refuses a
\* payload holding an object or an array where a cell's value belongs.
IsLiteral(t) == Len(t) = 0 \/ t[1] \notin {"{", "["}
PayloadLiteral(payload) ==
    \A r \in 1..Len(payload) : \A c \in 1..Len(payload[r]) :
        IsLiteral(payload[r][c])

PayloadParses(payload) ==
    \A r \in 1..Len(payload) : \A c \in 1..Len(payload[r]) :
        IsFormulaText(payload[r][c]) => ParsesAsFormula(payload[r][c])

ResolveSheetOrFirst(name, shs) ==
    IF name \in shs THEN name ELSE CHOOSE s \in shs : TRUE

\* worksheets.getItem(name): the named sheet, "" (ItemNotFound) if there is none.
ResolveSheet(name, shs) == IF name \in shs THEN name ELSE ""

HostFailsUnchecked(c, shs) ==
    IF ResolveSheet(c.sheet, shs) = "" THEN "ItemNotFound"
    ELSE IF c.op \in {"values", "formulas"}
            /\ (~PayloadLiteral(c.payload) \/ ~PayloadParses(c.payload))
    THEN "InvalidArgument"
    ELSE "none"

HostFailsAnyValue(c, shs) ==
    IF ResolveSheet(c.sheet, shs) = "" THEN "ItemNotFound"
    ELSE IF c.op \in {"values", "formulas"}
            /\ (~PayloadFits(c.addr, c.payload) \/ ~PayloadParses(c.payload))
    THEN "InvalidArgument"
    ELSE "none"

\* The error the workbook raises for a command, "none" when it carries it out.
HostFails(c, shs) ==
    IF ResolveSheet(c.sheet, shs) = "" THEN "ItemNotFound"
    ELSE IF c.op \in {"values", "formulas"}
            /\ (\/ ~PayloadFits(c.addr, c.payload)
                \/ ~PayloadLiteral(c.payload)
                \/ ~PayloadParses(c.payload))
    THEN "InvalidArgument"
    ELSE "none"

\* A cell after text t is assigned to it through values or formulas: a text
\* led by "=" becomes the cell's formula, any other text its constant.
WriteText(cell, t) ==
    IF IsFormulaText(t)
    THEN [cell EXCEPT !.formula = t, !.value = <<"#calc">>]
    ELSE [cell EXCEPT !.formula = t, !.value = t]

ClearAll(cell) == EmptyCell

ApplyFormatAndReset(cell, ch) ==
    [cell EXCEPT !.bold = IF ch.bold THEN TRUE ELSE @,
                 !.numberFormat = IF ch.numberFormat # "" THEN ch.numberFormat ELSE @,
                 !.fill = IF ch.fill # "" THEN ch.fill ELSE @,
                 !.fontColor = IF ch.fontColor # "" THEN ch.fontColor ELSE @,
                 !.value = IF ch.numberFormat # "" THEN <<>> ELSE @]

\* range.clear('Contents'): values and formulas go, formats stay.
ClearContents(cell) == [cell EXCEPT !.formula = <<>>, !.value = <<>>]

ApplyFormat(cell, ch) ==
    [cell EXCEPT !.bold = IF ch.bold THEN TRUE ELSE @,
                 !.numberFormat = IF ch.numberFormat # "" THEN ch.numberFormat ELSE @,
                 !.fill = IF ch.fill # "" THEN ch.fill ELSE @,
                 !.fontColor = IF ch.fontColor # "" THEN ch.fontColor ELSE @]

\* The cells of one sheet after command c.
ApplyToSheet(c, sh) ==
    [rc \in Cells |->
        IF rc \notin AddrCells(c.addr) THEN sh[rc]
        ELSE CASE c.op \in {"values", "formulas"} ->
                    LET r == rc[1] - AddrFirstRow(c.addr) + 1
                        k == rc[2] - AddrFirstCol(c.addr) + 1
                    IN  IF r \in 1..Len(c.payload) /\ k \in 1..Len(c.payload[r])
                        THEN WriteText(sh[rc], c.payload[r][k])
                        ELSE sh[rc]
               [] c.op = "clear" -> ClearContents(sh[rc])
               [] c.op = "format" -> ApplyFormat(sh[rc], c.change)
               [] OTHER -> sh[rc]]

HostApply(c, g, shs) ==
    [g EXCEPT ![ResolveSheet(c.sheet, shs)] = ApplyToSheet(c, @)]

\* context.sync() over queue q from position k: the document afterwards, the
\* indices carried out and the error that stopped it.
RECURSIVE HostRun(_, _, _, _)
HostRun(q, k, g, shs) ==
    IF k > Len(q) THEN [grid |-> g, applied |-> {}, err |-> "none"]
    ELSE IF HostFails(q[k], shs) # "none"
    THEN [grid |-> g, applied |-> {}, err |-> HostFails(q[k], shs)]
    ELSE LET rest == HostRun(q, k + 1, HostApply(q[k], g, shs), shs)
         IN  [rest EXCEPT !.applied = @ \cup {q[k].idx}]

-----------------------------------------------------------------------------
(* ModelChat *)

RECURSIVE TrimLeft(_)
TrimLeft(s) == IF s # <<>> /\ Head(s) = " " THEN TrimLeft(Tail(s)) ELSE s
RECURSIVE TrimRight(_)
TrimRight(s) ==
    IF s # <<>> /\ s[Len(s)] = " " THEN TrimRight(SubSeq(s, 1, Len(s) - 1)) ELSE s
Trim(s) == TrimRight(TrimLeft(s))

Inputs == { <<>>, <<" ">>, <<"h", "i">> }

UserMessage(text) == [role |-> "user", kind |-> "text"]
AnswerMessage == [role |-> "assistant", kind |-> "answer"]
ErrorMessage == [role |-> "assistant", kind |-> "error"]

GateNoFlag(flag, acts) == Len(acts) > 0

GateCurrentFlag(flag, acts) == Len(acts) > 0 /\ agentMode

\* Whether sendMessage hands the response's actions to executeActions.
Gate(flag, acts) == Len(acts) > 0 /\ flag

\* ModelChat as mounted, no message sent.
ChatInit ==
    /\ messages = <<>>
    /\ input = <<>>
    /\ loading = FALSE
    /\ agentMode = FALSE
    /\ sentAgentMode = FALSE
    /\ chatPc = "idle"
    /\ sends = 0
    /\ actions = <<>>
    /\ execPc = "none"
    /\ execIdx = 0
    /\ queue = <<>>
    /\ attempted = {}
    /\ queuedLog = <<>>
    /\ applied = {}
    /\ failedIdx = 0
    /\ lastError = NoError
    /\ syncCount = 0
    /\ discardCount = 0

\* No extractModelSnapshot call is running.
NoRange == [rowIndex |-> 0, columnIndex |-> 0, rowCount |-> 0, columnCount |-> 0,
            cells |-> <<>>]
NoSnapshot == <<>>
ExtrInit ==
    /\ exPc = "none"
    /\ exSheets = <<>>
    /\ exIdx = 0
    /\ exLoaded = NoRange
    /\ exPos = 0
    /\ exCells = <<>>
    /\ exSnap = NoSnapshot
    /\ exReads = <<>>
    /\ modelData = NoSnapshot

\* An item of response.data.errors, as ErrorChecker uses it.
ErrorItem(sheet, cell, severity) == [sheet |-> sheet, cell |-> cell, severity |-> severity]
NoErrorItem == ErrorItem("", <<>>, "")
\* response.data: NoResponse before the request resolves; errors is
\* Undefined when the response carries no errors field.
Undefined == <<ErrorItem("undefined", <<>>, "")>>
NoResponse == [errors |-> <<ErrorItem("none", <<>>, "")>>]

\* ErrorChecker as mounted, over a workbook showing A1 of its first sheet.
EcInit ==
    /\ checking = FALSE
    /\ ecErrors = <<>>
    /\ ecStatus = ""
    /\ ecPc = "idle"
    /\ ecSheets = <<>>
    /\ ecIdx = 0
    /\ ecData = NoSnapshot
    /\ ecResponse = NoResponse
    /\ view = [sheet |-> "Sheet1", selection |-> <<CellA1>>, asked |-> NoErrorItem]

\* A handleUpload of the PdfUpload on screen, and one that a PdfUpload
\* started before its tab was left.
UploadRuns == {"mounted", "orphan"}

\* App as mounted: no session uploaded, no model inserted.
AppInit ==
    /\ sessions = <<>>
    /\ sentSessionIds = <<>>
    /\ removedId = ""
    /\ upPc = [r \in UploadRuns |-> "idle"]
    /\ upData = [r \in UploadRuns |-> "none"]
    /\ upAdd = [r \in UploadRuns |-> ""]
    /\ upRuns = 0
    /\ upError = [r \in UploadRuns |-> "none"]

\* No pure function has been applied.
PureInit ==
    /\ colIn = 0
    /\ colLetters = <<>>
    /\ colOut = -1
    /\ detIn = <<>>
    /\ detOut = <<>>

\* The chat tab over a workbook of one blank sheet.
Init ==
    /\ sheets = {"Sheet1"}
    /\ grid = [s \in {"Sheet1"} |-> [rc \in Cells |-> EmptyCell]]
    /\ ChatInit
    /\ ExtrInit
    /\ activeTab = "chat"
    /\ EcInit
    /\ AppInit
    /\ PureInit

\* No executeActions call belongs to the running sendMessage (yet).
NoBatch ==
    /\ actions' = <<>>
    /\ execPc' = "none"
    /\ execIdx' = 0
    /\ queue' = <<>>
    /\ attempted' = {}
    /\ queuedLog' = <<>>
    /\ applied' = {}
    /\ failedIdx' = 0
    /\ lastError' = NoError
    /\ syncCount' = 0
    /\ discardCount' = 0

\* onChange of the input box (disabled while loading).
TypeInput ==
    /\ ~loading
    /\ \E text \in Inputs : input' = text
    /\ input' # input
    /\ UNCHANGED <<restVars, docVars, execVars, messages, loading, agentMode,
                   sentAgentMode, chatPc, sends>>

\* onChange of the Agent Mode checkbox (never disabled).
ToggleAgentMode ==
    /\ agentMode' = ~agentMode
    /\ UNCHANGED <<restVars, docVars, execVars, messages, input, loading,
                   sentAgentMode, chatPc, sends>>

SendStartUnguarded(n) ==
    /\ sends < n
    /\ messages' = Append(messages, UserMessage(input))
    /\ input' = <<>>
    /\ loading' = TRUE
    /\ sentAgentMode' = agentMode
    /\ chatPc' = "extract"
    /\ sends' = sends + 1
    /\ NoBatch
    /\ UNCHANGED <<docVars, agentMode>>

\* sendMessage up to the call of extractModelSnapshot, for the first n
\* messages of the session.
SendStartUpTo(n) ==
    /\ ~(Trim(input) = <<>> \/ loading)
    /\ sends < n
    /\ messages' = Append(messages, UserMessage(input))
    /\ input' = <<>>
    /\ loading' = TRUE
    /\ sentAgentMode' = agentMode
    /\ chatPc' = "extract"
    /\ sends' = sends + 1
    /\ NoBatch
    /\ UNCHANGED <<docVars, agentMode>>

SendStart == SendStartUpTo(MaxSends)

\* sendMessage up to its first await, the extraction taken as one step.
SendMessage ==
    /\ SendStart
    /\ UNCHANGED restVars

FailSendNoFinally ==
    /\ messages' = Append(messages, ErrorMessage)
    /\ loading' = loading
    /\ chatPc' = "idle"

\* catch and finally of sendMessage.
FailSend ==
    /\ messages' = Append(messages, ErrorMessage)
    /\ loading' = FALSE
    /\ chatPc' = "idle"

\* extractModelSnapshot resolves.
ExtractOk ==
    /\ chatPc = "extract"
    /\ chatPc' = "post"
    /\ UNCHANGED <<restVars, docVars, execVars, messages, input, loading, agentMode,
                   sentAgentMode, sends>>

\* extractModelSnapshot rejects (a sync of the extraction fails).
ExtractFail ==
    /\ chatPc = "extract"
    /\ FailSend
    /\ UNCHANGED <<restVars, docVars, execVars, input, agentMode, sentAgentMode, sends>>

\* axios.post rejects.
PostFail ==
    /\ chatPc = "post"
    /\ FailSend
    /\ UNCHANGED <<restVars, docVars, execVars, input, agentMode, sentAgentMode, sends>>

\* executeActions is called: Excel.run starts the batch on a fresh context.
StartExec(acts) ==
    /\ actions' = acts
    /\ execPc' = "loop"
    /\ execIdx' = 1
    /\ queue' = <<>>
    /\ attempted' = {}
    /\ queuedLog' = <<>>
    /\ applied' = {}
    /\ failedIdx' = 0
    /\ lastError' = NoError
    /\ syncCount' = 0
    /\ discardCount' = 0

\* axios.post resolves with a response carrying the actions acts, one of
\* the action lists B.
PostOkFrom(B) ==
    /\ chatPc = "post"
    /\ \E acts \in B :
        /\ messages' = Append(messages, AnswerMessage)
        /\ IF Gate(sentAgentMode, acts)
           THEN /\ StartExec(acts)
                /\ chatPc' = "exec"
                /\ UNCHANGED loading
           ELSE /\ chatPc' = "idle"
                /\ loading' = FALSE
                /\ actions' = acts
                /\ UNCHANGED <<execPc, execIdx, queue, attempted, queuedLog,
                               applied, failedIdx, lastError, syncCount,
                               discardCount>>
    /\ UNCHANGED <<restVars, docVars, input, agentMode, sentAgentMode, sends>>

PostOk == PostOkFrom(Batches \cup {<<>>})

\* One pass of the for loop whose body throws nothing: the action's commands
\* are queued.
ExecQueue ==
    /\ execPc = "loop"
    /\ execIdx <= Len(actions)
    /\ ThrownBy(actions[execIdx]) = NoError
    /\ attempted' = attempted \cup {execIdx}
    /\ queue' = Enqueue(queue, Command(actions[execIdx], execIdx))
    /\ queuedLog' = Enqueue(queuedLog, execIdx)
    /\ execIdx' = execIdx + 1
    /\ UNCHANGED <<restVars, docVars, chatVars, actions, execPc, applied, failedIdx,
                   lastError, syncCount, discardCount>>

ExecThrowSwallow ==
    /\ execPc = "loop"
    /\ execIdx <= Len(actions)
    /\ ThrownBy(actions[execIdx]) # NoError
    /\ attempted' = attempted \cup {execIdx}
    /\ failedIdx' = execIdx
    /\ lastError' = ThrownBy(actions[execIdx])
    /\ execIdx' = execIdx + 1
    /\ UNCHANGED <<restVars, docVars, chatVars, actions, execPc, queue, queuedLog,
                   applied, syncCount, discardCount>>

ExecThrowThenSync ==
    /\ execPc = "loop"
    /\ execIdx <= Len(actions)
    /\ ThrownBy(actions[execIdx]) # NoError
    /\ attempted' = attempted \cup {execIdx}
    /\ failedIdx' = execIdx
    /\ lastError' = ThrownBy(actions[execIdx])
    /\ execPc' = "failed"
    /\ grid' = HostRun(queue, 1, grid, sheets).grid
    /\ applied' = HostRun(queue, 1, grid, sheets).applied
    /\ queue' = <<>>
    /\ syncCount' = syncCount + 1
    /\ discardCount' = discardCount + 1
    /\ UNCHANGED <<restVars, sheets, chatVars, actions, execIdx, queuedLog>>

\* One pass of the for loop whose body throws: the catch logs and rethrows,
\* the batch function rejects before its context.sync(), and Excel.run
\* rejects, dropping the context with what was queued on it.
ExecThrow ==
    /\ execPc = "loop"
    /\ execIdx <= Len(actions)
    /\ ThrownBy(actions[execIdx]) # NoError
    /\ attempted' = attempted \cup {execIdx}
    /\ failedIdx' = execIdx
    /\ lastError' = ThrownBy(actions[execIdx])
    /\ execPc' = "failed"
    /\ queue' = <<>>
    /\ discardCount' = discardCount + 1
    /\ UNCHANGED <<restVars, docVars, chatVars, actions, execIdx, queuedLog, applied,
                   syncCount>>

\* await context.sync() after the loop: the workbook carries out the queue.
ExecSync ==
    /\ execPc = "loop"
    /\ execIdx > Len(actions)
    /\ LET r == HostRun(queue, 1, grid, sheets)
       IN  /\ grid' = r.grid
           /\ applied' = r.applied
           /\ execPc' = IF r.err = "none" THEN "done" ELSE "syncFailed"
           /\ lastError' = IF r.err = "none" THEN lastError ELSE ErrorOf(r.err)
    /\ queue' = <<>>
    /\ syncCount' = syncCount + 1
    /\ UNCHANGED <<restVars, sheets, chatVars, actions, execIdx, attempted, queuedLog,
                   failedIdx, discardCount>>

\* await context.sync() after the loop rejects before the workbook has
\* carried anything out (the host is unreachable).
ExecSyncLost ==
    /\ execPc = "loop"
    /\ execIdx > Len(actions)
    /\ execPc' = "syncFailed"
    /\ lastError' = ErrorOf("GeneralException")
    /\ queue' = <<>>
    /\ syncCount' = syncCount + 1
    /\ UNCHANGED <<restVars, docVars, chatVars, actions, execIdx, attempted, queuedLog,
                   applied, failedIdx, discardCount>>

\* await executeActions(...) resolves: sendMessage runs its finally.
ExecResolved ==
    /\ chatPc = "exec"
    /\ execPc = "done"
    /\ chatPc' = "idle"
    /\ loading' = FALSE
    /\ UNCHANGED <<restVars, docVars, execVars, messages, input, agentMode,
                   sentAgentMode, sends>>

\* await executeActions(...) rejects: sendMessage shows error.message.
ExecRejected ==
    /\ chatPc = "exec"
    /\ execPc \in {"failed", "syncFailed"}
    /\ FailSend
    /\ UNCHANGED <<restVars, docVars, execVars, input, agentMode, sentAgentMode, sends>>

Next ==
    \/ TypeInput
    \/ ToggleAgentMode
    \/ SendMessage
    \/ ExtractOk
    \/ ExtractFail
    \/ PostFail
    \/ PostOk
    \/ ExecQueue
    \/ ExecThrow
    \/ ExecSync
    \/ ExecSyncLost
    \/ ExecResolved
    \/ ExecRejected

Spec == Init /\ [][Next]_vars

-----------------------------------------------------------------------------
(* Properties of the mutation executor and of the agent-mode gate.         *)
(* Indices are 1-based here: index i of the text is i + 1 below.           *)

Finished == execPc \in {"done", "failed", "syncFailed"}
IsRangeAction(a) == a.type \in {"setRangeValues", "setRangeFormulas"}
RangePayload(a) == IF a.type = "setRangeValues" THEN a.values ELSE a.formulas
SpanRows(a) == a.addr[Len(a.addr)].row - a.addr[1].row + 1
SpanCols(a) == colToNumFrom(a.addr[Len(a.addr)].col, 1, 0) - colToNumFrom(a.addr[1].col, 1, 0) + 1
OuterLen(a) == Len(RangePayload(a))
InnerLen(a) == IF Len(RangePayload(a)) > 0 THEN Len(RangePayload(a)[1]) ELSE 0
DimsDiffer(a) == OuterLen(a) # SpanRows(a) \/ InnerLen(a) # SpanCols(a)
ExecStarts == execPc # "loop" /\ execPc' = "loop"

\* C1: during one executeActions call the writes queued so far are those of
\* a prefix of the action list, in list order: none skipped, reordered or
\* queued twice.
C1_QueuedInListOrder ==
    /\ Len(queuedLog) <= Len(actions)
    /\ queuedLog = [k \in 1..Len(queuedLog) |-> k]
    /\ execPc = "loop" =>
        /\ execIdx = Len(queuedLog) + 1
        /\ queue = [k \in 1..Len(queuedLog) |-> Command(actions[k], k)]

C1_Witness ==
    /\ execPc = "loop"
    /\ Len(queuedLog) = 2
    /\ Len(actions) = 3
    /\ actions[1] # actions[2]

\* C2: once the loop body has thrown at index i, no action with a greater
\* index is ever attempted in that call.
C2_StopsAtThrow ==
    failedIdx # 0 =>
        /\ execPc = "failed"
        /\ attempted = 1..failedIdx
        /\ queuedLog = [k \in 1..(failedIdx - 1) |-> k]

C2_Witness ==
    /\ failedIdx = 2
    /\ Len(actions) = 3
    /\ chatPc = "idle"
    /\ 3 \notin attempted

C3Batch ==
    << SetCellValue("Sheet1", CellA1, TxtOne),
       SetFormula("Sheet1", CellB1, TxtDangling),
       SetCellValue("Sheet1", CellA1, TxtOne) >>

\* C3: for [SetCellValue(valid), SetFormula(malformed), SetCellValue(valid)]
\* execution halts at the second action: the first is applied, the second
\* fails and the third is never attempted.
C3_FailFastAtMalformedFormula ==
    (actions = C3Batch /\ Finished /\ lastError.kind # "GeneralException") =>
        /\ execPc # "done"
        /\ applied = {1}
        /\ attempted = {1, 2}

\* C4: the failure of a batch, as surfaced to the caller, carries the index
\* and the content of the action that failed and the actions queued before.
C4_FailureIdentifiesAction ==
    execPc \in {"failed", "syncFailed"} =>
        {"index", "action", "queued"} \subseteq DOMAIN lastError

C6_FlagOffNeverExecutes ==
    [][(ExecStarts \/ grid' # grid) => agentMode]_vars

\* C6 as amended: executeActions is entered, and the grid written, only for
\* a message that was sent while the Agent Mode flag was on.
C6_SentFlagGatesExecution ==
    [][(ExecStarts \/ grid' # grid) => sentAgentMode]_vars

C6_Witness ==
    /\ chatPc = "idle"
    /\ ~sentAgentMode
    /\ agentMode
    /\ Len(actions) = 3
    /\ execPc = "none"
    /\ messages # <<>>
    /\ messages[Len(messages)] = AnswerMessage

\* C7: a range action spanning R rows by C columns is rejected if and only
\* if its payload is not R by C, and the rejection reports the expected and
\* the actual dimensions.
C7_RangeRejectedIffDimsDiffer ==
    (Finished /\ lastError.kind # "GeneralException") =>
        \A i \in attempted :
            IsRangeAction(actions[i]) =>
                (DimsDiffer(actions[i]) <=>
                    /\ i \notin applied
                    /\ attempted = 1..i
                    /\ lastError.kind = "DimensionMismatch"
                    /\ lastError.expected = <<SpanRows(actions[i]), SpanCols(actions[i])>>
                    /\ lastError.actual = <<OuterLen(actions[i]), InnerLen(actions[i])>>)

C9_MissingSheetNotApplied ==
    /\ \A i \in applied : actions[i].sheet \in sheets
    /\ execPc = "done" => \A i \in 1..Len(actions) : actions[i].sheet \in sheets
    /\ (execPc = "syncFailed" /\ lastError.kind # "GeneralException") =>
        \A i \in 1..Len(actions) :
            (actions[i].sheet \notin sheets /\ applied = 1..(i - 1)) =>
                lastError.kind = "ItemNotFound"

C9_Witness ==
    /\ execPc = "syncFailed"
    /\ lastError.kind = "ItemNotFound"
    /\ Len(actions) = 3
    /\ actions[2].sheet \notin sheets
    /\ attempted = {1, 2, 3}
    /\ applied = {1}

\* C10: a SetFormula or SetRangeFormulas payload that does not begin with
\* "=" is rejected and never written to the grid as a plain value.
C10_UnmarkedFormulaNeverWritten ==
    \A i \in applied :
        /\ actions[i].type = "setFormula" => IsFormulaText(actions[i].formula)
        /\ actions[i].type = "setRangeFormulas" =>
            \A r \in 1..Len(actions[i].formulas) :
                \A c \in 1..Len(actions[i].formulas[r]) :
                    IsFormulaText(actions[i].formulas[r][c])

\* C12: a rejection is an outcome returned for its action and is never
\* raised, and rejecting one action does not stop the rest of the list from
\* being evaluated: no executeActions call ends in a throw, and a call that
\* has ended has evaluated every action of its list.
C12_RejectionNeverStopsBatch ==
    /\ execPc # "failed"
    /\ Finished => attempted = 1..Len(actions)

-----------------------------------------------------------------------------
(* colToNum on its own: it is applied to the letters of a column number.   *)

\* The letters that name column n (n >= 1) in a spreadsheet.
RECURSIVE NumToCol(_)
NumToCol(n) ==
    IF n = 0 THEN <<>>
    ELSE NumToCol((n - 1) \div 26) \o <<65 + ((n - 1) % 26)>>

\* The positional value of letters, most significant letter first.
RECURSIVE PositionalValue(_)
PositionalValue(col) ==
    IF col = <<>> THEN 0
    ELSE (col[1] - 64) * 26 ^ (Len(col) - 1) + PositionalValue(Tail(col))

InitCol ==
    /\ sheets = {"Sheet1"}
    /\ grid = [s \in {"Sheet1"} |-> [rc \in Cells |-> EmptyCell]]
    /\ ChatInit
    /\ ExtrInit
    /\ activeTab = "chat"
    /\ EcInit
    /\ AppInit
    /\ colIn \in 1..MaxColumnNumber
    /\ colLetters = <<>>
    /\ colOut = -1
    /\ detIn = <<>>
    /\ detOut = <<>>

\* An address naming column colIn reaches executeActions.
ColName ==
    /\ colLetters = <<>>
    /\ colLetters' = NumToCol(colIn)
    /\ UNCHANGED <<docVars, chatVars, execVars, extrVars, activeTab, appVars, ecVars,
                   colIn, colOut, detIn, detOut>>

\* colToNum is called on the letters.
ColToNum ==
    /\ colLetters # <<>>
    /\ colOut = -1
    /\ colOut' = colToNum(colLetters)
    /\ UNCHANGED <<docVars, chatVars, execVars, extrVars, activeTab, appVars, ecVars,
                   colIn, colLetters, detIn, detOut>>

NextCol ==
    \/ ColName
    \/ ColToNum

SpecCol == InitCol /\ [][NextCol]_vars

\* C18: colToNum is the base-26, 1-indexed positional value of the letters,
\* with no zero digit: A decodes to 1, Z to 26, AA to 27; decoding the
\* letters of column n gives n back for every n of the range; and changing
\* any one letter of a column changes the decoded number.
C18_ColToNumIsBase26 ==
    colOut # -1 =>
        /\ colOut = colIn
        /\ colOut = PositionalValue(colLetters)
        /\ \A i \in 1..Len(colLetters) : colLetters[i] \in 65..90
        /\ colLetters = <<65>> => colOut = 1
        /\ colLetters = <<90>> => colOut = 26
        /\ colLetters = <<65, 65>> => colOut = 27
        /\ \A i \in 1..Len(colLetters) : \A ch \in 65..90 :
                ch # colLetters[i] =>
                    colToNum([colLetters EXCEPT ![i] = ch]) # colOut

C18_Witness ==
    /\ colIn = 27
    /\ colLetters = <<65, 65>>
    /\ colOut = 27

-----------------------------------------------------------------------------
(* extractModelSnapshot, sync by sync.  Rows and columns of the workbook   *)
(* are zero-based in what usedRange reports (cell <<r, c>> of the grid is  *)
(* row r - 1, column c - 1); "" is the empty text <<>>.                    *)

TxtZero == <<"0">>
TxtFalse == <<"false">>
Null == <<"null">>

\* The texts JavaScript takes as false: "", 0 and false.
Falsy(t) == t \in {<<>>, TxtZero, TxtFalse}

MinOf(S) == CHOOSE x \in S : \A y \in S : x <= y
MaxOf(S) == CHOOSE x \in S : \A y \in S : x >= y

\* The cells of a sheet that count for its used range: those holding content
\* or formatting.
UsedCells(sh) == {rc \in Cells : sh[rc] # EmptyCell}

\* worksheet.getUsedRange() as loaded by a sync: the bounding rectangle of
\* the used cells, the top-left cell of the sheet when there is none.
GetUsedRange(sh) ==
    IF UsedCells(sh) = {}
    THEN [rowIndex |-> 0, columnIndex |-> 0, rowCount |-> 1, columnCount |-> 1,
          cells |-> sh]
    ELSE LET rows == {rc[1] : rc \in UsedCells(sh)}
             cols == {rc[2] : rc \in UsedCells(sh)}
         IN  [rowIndex |-> MinOf(rows) - 1,
              columnIndex |-> MinOf(cols) - 1,
              rowCount |-> MaxOf(rows) - MinOf(rows) + 1,
              columnCount |-> MaxOf(cols) - MinOf(cols) + 1,
              cells |-> sh]

\* usedRange.values[row][col], .formulas[row][col], .numberFormat[row][col].
LoadedCell(u, row, col) == u.cells[<<u.rowIndex + row + 1, u.columnIndex + col + 1>>]
ValueAt(u, row, col) == LoadedCell(u, row, col).value
FormulaAt(u, row, col) == LoadedCell(u, row, col).formula
NumberFormatAt(u, row, col) == LoadedCell(u, row, col).numberFormat

\* usedRange.address, as the corners it names.
RangeAddress(u) ==
    [top |-> u.rowIndex, left |-> u.columnIndex,
     bottom |-> u.rowIndex + u.rowCount - 1,
     right |-> u.columnIndex + u.columnCount - 1]

IsSkippedFalsy(value, formula) == Falsy(value) /\ Falsy(formula)

\* The test that makes the loops skip a cell.
IsSkipped(value, formula) ==
    (value = <<>> \/ value = Null) /\ (formula = <<>> \/ formula = Null)

\* The nested loops visit the cells row by row; position k counts them from 0.
PosRow(u, k) == k \div u.columnCount
PosCol(u, k) == k % u.columnCount

NextCellAny(u, k) == IF k < u.rowCount * u.columnCount THEN k ELSE -1

\* The first position from k on that the loops do not skip, -1 if none.
NextCell(u, k) ==
    LET S == {j \in k..(u.rowCount * u.columnCount - 1) :
                ~IsSkipped(ValueAt(u, PosRow(u, j), PosCol(u, j)),
                           FormulaAt(u, PosRow(u, j), PosCol(u, j)))}
    IN  IF S = {} THEN -1 ELSE MinOf(S)

CellRecordLocal(u, row, col, live) ==
    [row |-> row, col |-> col,
     value |-> ValueAt(u, row, col),
     formula |-> IF Falsy(FormulaAt(u, row, col)) THEN Null ELSE FormulaAt(u, row, col),
     numberFormat |-> NumberFormatAt(u, row, col),
     bold |-> live.bold, fontColor |-> live.fontColor, fillColor |-> live.fill]

\* The object pushed for the cell at local offset (row, col); live is the
\* cell as the format load finds it.
CellRecord(u, row, col, live) ==
    [row |-> u.rowIndex + row, col |-> u.columnIndex + col,
     value |-> ValueAt(u, row, col),
     formula |-> IF Falsy(FormulaAt(u, row, col)) THEN Null ELSE FormulaAt(u, row, col),
     numberFormat |-> NumberFormatAt(u, row, col),
     bold |-> live.bold, fontColor |-> live.fontColor, fillColor |-> live.fill]

PushCellFront(cells, rec) == <<rec>> \o cells

\* usedRange.getCell(row, col).format.load(...) for position k, the loops
\* having found the cell there not skipped (k = -1: the loops ended).
QueueFormatLoad(reads, name, u, k) ==
    IF k = -1 THEN reads
    ELSE Append(reads, [sheet |-> name, row |-> u.rowIndex + PosRow(u, k),
                        col |-> u.columnIndex + PosCol(u, k)])

\* cells.push(...)
PushCell(cells, rec) == Append(cells, rec)

\* snapshot[name] = entry on a plain object: an own property, except that
\* the key "__proto__" reaches the setter of Object.prototype and leaves the
\* object's own keys as they were.
SnapshotPut(snap, name, entry) ==
    IF name = "__proto__" THEN snap
    ELSE [n \in (DOMAIN snap) \cup {name} |-> IF n = name THEN entry ELSE snap[n]]

\* sheets.items: the sheets in workbook order.
SheetOrder == <<"Sheet1", "Data", "__proto__">>
SheetItems(shs) == SelectSeq(SheetOrder, LAMBDA n : n \in shs)

\* sendMessage up to its first await: extractModelSnapshot has queued the
\* load of the sheet names.
SendExtract ==
    /\ activeTab = "chat"
    /\ SendStart
    /\ exPc' = "list"
    /\ exSheets' = <<>>
    /\ exIdx' = 0
    /\ exLoaded' = NoRange
    /\ exPos' = 0
    /\ exCells' = <<>>
    /\ exSnap' = NoSnapshot
    /\ exReads' = <<>>
    /\ modelData' = NoSnapshot
    /\ UNCHANGED <<activeTab, appVars, ecVars, pureVars>>

\* The first sync resolves: sheets.items is loaded and the first pass of
\* the sheet loop queues the load of its used range.
ExListSheets ==
    /\ chatPc = "extract"
    /\ exPc = "list"
    /\ exSheets' = SheetItems(sheets)
    /\ exIdx' = 1
    /\ exPc' = "range"
    /\ UNCHANGED <<docVars, chatVars, execVars, exLoaded, exPos, exCells, exSnap, exReads,
                   modelData, activeTab, appVars, ecVars, pureVars>>

\* The cell loops of the current sheet have ended with the records cells:
\* its entry is stored and the next sheet is taken up, or the snapshot is
\* returned to sendMessage.
SheetDone(name, cells, u) ==
    LET snap == SnapshotPut(exSnap, name,
                            [cells |-> cells, address |-> RangeAddress(u)])
    IN  /\ exSnap' = snap
        /\ IF exIdx < Len(exSheets)
           THEN /\ exIdx' = exIdx + 1
                /\ exPc' = "range"
                /\ UNCHANGED <<chatPc, modelData>>
           ELSE /\ exPc' = "done"
                /\ modelData' = snap
                /\ chatPc' = "post"
                /\ UNCHANGED exIdx

\* The sync of a used-range load resolves: the cell loops run up to the
\* first cell they do not skip, where the format load is queued.
ExLoadRange ==
    /\ chatPc = "extract"
    /\ exPc = "range"
    /\ exSheets[exIdx] \in sheets
    /\ LET u == GetUsedRange(grid[exSheets[exIdx]])
           k == NextCell(u, 0)
       IN  /\ exLoaded' = u
           /\ exCells' = <<>>
           /\ exReads' = QueueFormatLoad(exReads, exSheets[exIdx], u, k)
           /\ IF k = -1
              THEN /\ SheetDone(exSheets[exIdx], <<>>, u)
                   /\ exPos' = 0
              ELSE /\ exPos' = k
                   /\ exPc' = "cell"
                   /\ UNCHANGED <<exIdx, exSnap, modelData, chatPc>>
    /\ UNCHANGED <<docVars, execVars, messages, input, loading, agentMode,
                   sentAgentMode, sends, exSheets, activeTab, appVars, ecVars, pureVars>>

\* The sync of a cell's format load resolves: the record is pushed and the
\* loops run on to the next cell they do not skip.
ExLoadFormat ==
    /\ chatPc = "extract"
    /\ exPc = "cell"
    /\ LET row == PosRow(exLoaded, exPos)
           col == PosCol(exLoaded, exPos)
           live == grid[exSheets[exIdx]][<<exLoaded.rowIndex + row + 1,
                                          exLoaded.columnIndex + col + 1>>]
           cells == PushCell(exCells, CellRecord(exLoaded, row, col, live))
           k == NextCell(exLoaded, exPos + 1)
       IN  /\ exCells' = cells
           /\ exReads' = QueueFormatLoad(exReads, exSheets[exIdx], exLoaded, k)
           /\ IF k = -1
              THEN /\ SheetDone(exSheets[exIdx], cells, exLoaded)
                   /\ UNCHANGED exPos
              ELSE /\ exPos' = k
                   /\ UNCHANGED <<exPc, exIdx, exSnap, modelData, chatPc>>
    /\ UNCHANGED <<docVars, execVars, messages, input, loading, agentMode,
                   sentAgentMode, sends, exSheets, exLoaded, activeTab, appVars, ecVars,
                   pureVars>>

ExSyncFailsPartial ==
    /\ chatPc = "extract"
    /\ exPc \in {"list", "range", "cell"}
    /\ exPc' = "failed"
    /\ modelData' = exSnap
    /\ chatPc' = "post"
    /\ UNCHANGED <<docVars, execVars, messages, input, loading, agentMode,
                   sentAgentMode, sends, exSheets, exIdx, exLoaded, exPos,
                   exCells, exSnap, exReads, activeTab, appVars, ecVars, pureVars>>

\* A sync of the extraction rejects: Excel.run and extractModelSnapshot
\* reject, and sendMessage goes to its catch.
ExSyncFails ==
    /\ chatPc = "extract"
    /\ exPc \in {"list", "range", "cell"}
    /\ exPc' = "failed"
    /\ FailSend
    /\ UNCHANGED <<docVars, execVars, input, agentMode, sentAgentMode, sends,
                   exSheets, exIdx, exLoaded, exPos, exCells, exSnap, exReads, modelData,
                   activeTab, appVars, ecVars, pureVars>>

\* Workbooks the extraction is run on.
CellWith(v, f) == [EmptyCell EXCEPT !.value = v, !.formula = f]
SheetOf(f) == [rc \in Cells |-> IF rc \in DOMAIN f THEN f[rc] ELSE EmptyCell]
BlankSheet == SheetOf(<<>>)
\* B2 holds the number 0.
OffsetSheet == SheetOf(<<2, 2>> :> CellWith(TxtZero, TxtZero))
\* B1 holds 1, C1 a formula whose result is "", C2 a formula; B2 is empty.
SparseSheet ==
    SheetOf(<<1, 2>> :> CellWith(TxtOne, TxtOne)
            @@ <<1, 3>> :> CellWith(<<>>, <<"=", "\"\"">>)
            @@ <<2, 3>> :> CellWith(<<"#calc">>, TxtFormula))
\* A1 is bold and empty, C2 holds false.
FormattedSheet ==
    SheetOf(<<1, 1>> :> [EmptyCell EXCEPT !.bold = TRUE]
            @@ <<2, 3>> :> CellWith(TxtFalse, TxtFalse))
SheetContents == {BlankSheet, OffsetSheet, SparseSheet, FormattedSheet}
Documents ==
    {[n \in {"Sheet1"} |-> c] : c \in SheetContents}
    \cup {("Sheet1" :> c) @@ (n :> d) :
            c \in SheetContents, n \in {"Data", "__proto__"},
            d \in {BlankSheet, OffsetSheet}}

\* The actions of the responses to a message sent over these workbooks.
SmallPool ==
    { SetCellValue("Sheet1", CellA1, TxtOne),
      SetCellValue("Sheet1", CellB1, TxtObject),
      SetCellValue("Sheet1", CellC1, TxtArray),
      SetRangeValues("Sheet1", RangeA1C2, Grid2x2(TxtOne)) }
SmallBatches == UNION { [1..n -> SmallPool] : n \in 1..2 }

PostOkSmall == PostOkFrom(SmallBatches \cup {<<>>})

InitExtract ==
    /\ \E doc \in Documents :
        /\ sheets = DOMAIN doc
        /\ grid = doc
    /\ ChatInit
    /\ ExtrInit
    /\ activeTab = "chat"
    /\ EcInit
    /\ AppInit
    /\ PureInit

NextExtract ==
    \/ TypeInput
    \/ ToggleAgentMode
    \/ SendExtract
    \/ ExListSheets
    \/ ExLoadRange
    \/ ExLoadFormat
    \/ ExSyncFails
    \/ PostFail
    \/ PostOkSmall
    \/ ExecQueue
    \/ ExecThrow
    \/ ExecSync
    \/ ExecSyncLost
    \/ ExecResolved
    \/ ExecRejected

SpecExtract == InitExtract /\ [][NextExtract]_vars

-----------------------------------------------------------------------------
(* Properties of the snapshot extraction.  Until the response arrives the  *)
(* workbook is as the extraction read it.                                  *)

Reading == chatPc \in {"extract", "post"}
Extracted == chatPc = "post" /\ exPc = "done"
HasContent(cell) == cell.value # <<>> \/ cell.formula # <<>>
\* The cells of the used-range rectangle of a sheet.
UsedRect(sh) ==
    IF UsedCells(sh) = {} THEN {<<1, 1>>}
    ELSE {rc \in Cells :
            /\ \E a \in UsedCells(sh) : a[1] <= rc[1]
            /\ \E a \in UsedCells(sh) : a[1] >= rc[1]
            /\ \E a \in UsedCells(sh) : a[2] <= rc[2]
            /\ \E a \in UsedCells(sh) : a[2] >= rc[2]}
RecordsAt(cells, rc) ==
    {i \in 1..Len(cells) : cells[i].row = rc[1] - 1 /\ cells[i].col = rc[2] - 1}
\* The records extracted so far from sheet n: its stored entry, or the cells
\* pushed so far when n is the sheet being read.
SheetRecords(n) ==
    IF n \in DOMAIN exSnap THEN exSnap[n].cells
    ELSE IF exPc = "cell" /\ exSheets[exIdx] = n THEN exCells
    ELSE <<>>

C13_RecordIffContent ==
    Reading =>
        /\ \A n \in DOMAIN exSnap : \A rc \in UsedRect(grid[n]) :
            RecordsAt(exSnap[n].cells, rc) # {} <=> HasContent(grid[n][rc])
        /\ \A n \in sheets : \A rc \in Cells :
            RecordsAt(SheetRecords(n), rc) # {} => HasContent(grid[n][rc])

C13_Witness ==
    /\ Extracted
    /\ grid["Sheet1"] = FormattedSheet
    /\ Len(modelData["Sheet1"].cells) = 1
    /\ modelData["Sheet1"].cells[1].value = TxtFalse

\* C14: a record carries absolute zero-based coordinates, row = startRow + r
\* and col = startCol + c: the record's value, formula and number format
\* are those of the workbook cell at the record's row and column.
C14_AbsoluteCoordinates ==
    Reading =>
        \A n \in sheets : \A i \in 1..Len(SheetRecords(n)) :
            LET rec == SheetRecords(n)[i]
                rc == <<rec.row + 1, rec.col + 1>>
            IN  /\ rc \in Cells
                /\ rec.value = grid[n][rc].value
                /\ rec.formula \in {grid[n][rc].formula, Null}
                /\ rec.numberFormat = grid[n][rc].numberFormat
                /\ HasContent(grid[n][rc])

C14_Witness ==
    /\ Extracted
    /\ grid["Sheet1"] = OffsetSheet
    /\ modelData["Sheet1"].address.top = 1
    /\ modelData["Sheet1"].address.left = 1
    /\ Len(modelData["Sheet1"].cells) = 1
    /\ modelData["Sheet1"].cells[1].row = 1
    /\ modelData["Sheet1"].cells[1].col = 1

\* C15: in a sheet's snapshot no two records share (row, col), every record
\* lies in the used-range rectangle, and the records are in ascending
\* (row, col) order.
C15_UniqueInsideAscending ==
    /\ \A n \in DOMAIN exSnap :
        LET e == exSnap[n]
        IN  /\ \A i \in 1..Len(e.cells) :
                /\ e.cells[i].row \in e.address.top..e.address.bottom
                /\ e.cells[i].col \in e.address.left..e.address.right
            /\ \A i, j \in 1..Len(e.cells) :
                i < j =>
                    \/ e.cells[i].row < e.cells[j].row
                    \/ /\ e.cells[i].row = e.cells[j].row
                       /\ e.cells[i].col < e.cells[j].col
            /\ Reading =>
                \A rc \in Cells :
                    rc \in UsedRect(grid[n]) <=>
                        /\ rc[1] - 1 \in e.address.top..e.address.bottom
                        /\ rc[2] - 1 \in e.address.left..e.address.right
    /\ \A i, j \in 1..Len(exCells) :
        i < j =>
            \/ exCells[i].row < exCells[j].row
            \/ /\ exCells[i].row = exCells[j].row
               /\ exCells[i].col < exCells[j].col

C15_Witness ==
    /\ Extracted
    /\ grid["Sheet1"] = SparseSheet
    /\ Len(modelData["Sheet1"].cells) = 3
    /\ modelData["Sheet1"].cells[3].row = 1

\* C16: a snapshot that is returned has exactly one entry per sheet of the
\* workbook, sheets without content included: its sheet names are the
\* workbook's sheet names.
C16_EntryPerSheet ==
    Extracted => DOMAIN modelData = sheets

\* C17: when a sync of the extraction fails, the failure reaches
\* sendMessage and no snapshot does, however much had been read; for that
\* message no request is sent and no action is executed.
C17_FailedExtractionEndsMessage ==
    exPc = "failed" =>
        /\ modelData = NoSnapshot
        /\ chatPc = "idle"
        /\ ~loading
        /\ messages[Len(messages)] = ErrorMessage
        /\ execPc = "none"
        /\ actions = <<>>
        /\ applied = {}

C17_Witness ==
    /\ exPc = "failed"
    /\ exIdx = 2
    /\ exSnap # NoSnapshot
    /\ modelData = NoSnapshot
    /\ chatPc = "idle"

-----------------------------------------------------------------------------
(* App: the three tabs, each showing its component while it is the active  *)
(* tab.  A component is unmounted when its tab is left and mounted anew    *)
(* when the tab is shown again; what it had started goes on running.  A    *)
(* tab is shown again here only once the run its last instance started has *)
(* ended.  A click or keystroke is handled between awaits, never inside    *)
(* the for loop of executeActions.                                         *)

InLoop == execPc = "loop" /\ execIdx <= Len(actions)

\* onClick of a tab button.
SwitchTab ==
    /\ ~InLoop
    /\ \E tab \in {"upload", "errors", "chat"} :
        /\ tab # activeTab
        /\ activeTab' = tab
        /\ IF tab = "chat"
           THEN /\ chatPc = "idle"
                /\ messages' = <<>>
                /\ input' = <<>>
                /\ loading' = FALSE
                /\ agentMode' = FALSE
                /\ UNCHANGED <<checking, ecErrors, ecStatus, ecResponse>>
           ELSE IF tab = "errors"
           THEN /\ ecPc = "idle"
                /\ checking' = FALSE
                /\ ecErrors' = <<>>
                /\ ecStatus' = ""
                /\ ecResponse' = NoResponse
                /\ UNCHANGED <<messages, input, loading, agentMode>>
           ELSE UNCHANGED <<messages, input, loading, agentMode, checking,
                            ecErrors, ecStatus, ecResponse>>
    /\ UNCHANGED <<docVars, execVars, extrVars, pureVars, sentAgentMode, chatPc,
                   sends, ecPc, ecSheets, ecIdx, ecData, view, appVars>>

AppTypeInput == activeTab = "chat" /\ ~InLoop /\ TypeInput
AppToggleAgentMode == activeTab = "chat" /\ ~InLoop /\ ToggleAgentMode
AppSendMessage == ~InLoop /\ SendExtract

\* onClick of the Run Error Check button (disabled while checking):
\* runErrorCheck up to the first await of extractModelData.
RunErrorCheck ==
    /\ activeTab = "errors"
    /\ ~InLoop
    /\ ~checking
    /\ ecPc = "idle"
    /\ checking' = TRUE
    /\ ecStatus' = "Analyzing model..."
    /\ ecErrors' = <<>>
    /\ ecPc' = "list"
    /\ ecSheets' = <<>>
    /\ ecIdx' = 0
    /\ ecData' = NoSnapshot
    /\ ecResponse' = NoResponse
    /\ UNCHANGED <<docVars, chatVars, execVars, extrVars, activeTab, appVars, pureVars, view>>

EcListSheetsClearing ==
    /\ ecPc = "list"
    /\ ecSheets' = SheetItems(sheets)
    /\ ecIdx' = 1
    /\ ecPc' = "range"
    /\ grid' = [n \in sheets |-> [rc \in Cells |-> ClearContents(grid[n][rc])]]
    /\ UNCHANGED <<sheets, chatVars, execVars, extrVars, activeTab, appVars, pureVars,
                   checking, ecErrors, ecStatus, ecData, ecResponse, view>>

\* extractModelData: the first sync resolves.
EcListSheets ==
    /\ ecPc = "list"
    /\ ecSheets' = SheetItems(sheets)
    /\ ecIdx' = 1
    /\ ecPc' = "range"
    /\ UNCHANGED <<docVars, chatVars, execVars, extrVars, activeTab, appVars, pureVars,
                   checking, ecErrors, ecStatus, ecData, ecResponse, view>>

\* usedRange.values and usedRange.formulas as loaded.
LoadedValues(u) ==
    [r \in 1..u.rowCount |-> [c \in 1..u.columnCount |-> ValueAt(u, r - 1, c - 1)]]
LoadedFormulas(u) ==
    [r \in 1..u.rowCount |-> [c \in 1..u.columnCount |-> FormulaAt(u, r - 1, c - 1)]]

\* extractModelData: the sync of a used-range load resolves.
EcLoadRange ==
    /\ ecPc = "range"
    /\ ecSheets[ecIdx] \in sheets
    /\ LET u == GetUsedRange(grid[ecSheets[ecIdx]])
       IN  ecData' = SnapshotPut(ecData, ecSheets[ecIdx],
                                 [values |-> LoadedValues(u),
                                  formulas |-> LoadedFormulas(u),
                                  address |-> RangeAddress(u)])
    /\ IF ecIdx < Len(ecSheets)
       THEN ecIdx' = ecIdx + 1 /\ UNCHANGED ecPc
       ELSE ecPc' = "post" /\ UNCHANGED ecIdx
    /\ UNCHANGED <<docVars, chatVars, execVars, extrVars, activeTab, appVars, pureVars,
                   checking, ecErrors, ecStatus, ecSheets, ecResponse, view>>

\* catch and finally of runErrorCheck.
EcFailed ==
    /\ ecStatus' = "Failed to check errors. Please try again."
    /\ checking' = FALSE
    /\ ecPc' = "idle"
    /\ UNCHANGED <<docVars, chatVars, execVars, extrVars, activeTab, appVars, pureVars,
                   ecErrors, ecSheets, ecIdx, ecData, ecResponse, view>>

\* A sync of extractModelData rejects.
EcSyncFails == ecPc \in {"list", "range"} /\ EcFailed

\* axios.post to check-errors rejects.
EcPostFail == ecPc = "post" /\ EcFailed

\* The errors field of the responses to check-errors in this model.
ErrorLists ==
    { <<>>,
      <<ErrorItem("Sheet1", <<CellB1>>, "critical")>>,
      <<ErrorItem("Sheet1", <<CellC2>>, "warning"),
        ErrorItem("Data", <<CellB1>>, "critical")>> }

\* axios.post to check-errors resolves: setErrors(errors || []), then the
\* status from errors.length, which throws when errors is undefined.
EcPostOk ==
    /\ ecPc = "post"
    /\ \E found \in ErrorLists \cup {Undefined} :
        /\ ecResponse' = [errors |-> found]
        /\ ecErrors' = IF found = Undefined THEN <<>> ELSE found
        /\ ecStatus' = IF found = Undefined
                       THEN "Failed to check errors. Please try again."
                       ELSE IF Len(found) = 0
                       THEN "No errors found! Model looks good."
                       ELSE "Found issue(s)"
    /\ checking' = FALSE
    /\ ecPc' = "idle"
    /\ UNCHANGED <<docVars, chatVars, execVars, extrVars, activeTab, appVars, pureVars,
                   ecSheets, ecIdx, ecData, view>>

NavigateSheetOnly ==
    /\ activeTab = "errors"
    /\ ~InLoop
    /\ \E i \in 1..Len(ecErrors) :
        view' = IF ResolveSheet(ecErrors[i].sheet, sheets) = ""
                THEN [view EXCEPT !.asked = ecErrors[i]]
                ELSE [sheet |-> ecErrors[i].sheet, selection |-> <<CellA1>>,
                      asked |-> ecErrors[i]]
    /\ UNCHANGED <<docVars, chatVars, execVars, extrVars, activeTab, appVars, pureVars,
                   checking, ecErrors, ecStatus, ecPc, ecSheets, ecIdx, ecData,
                   ecResponse>>

\* onClick of an item of the error list: navigateToError(error) through its
\* sync.  getItem of a sheet the workbook does not have fails the sync
\* before anything is activated or selected.
NavigateToError ==
    /\ activeTab = "errors"
    /\ ~InLoop
    /\ \E i \in 1..Len(ecErrors) :
        view' = IF ResolveSheet(ecErrors[i].sheet, sheets) = ""
                THEN [view EXCEPT !.asked = ecErrors[i]]
                ELSE [sheet |-> ecErrors[i].sheet, selection |-> ecErrors[i].cell,
                      asked |-> ecErrors[i]]
    /\ UNCHANGED <<docVars, chatVars, execVars, extrVars, activeTab, appVars, pureVars,
                   checking, ecErrors, ecStatus, ecPc, ecSheets, ecIdx, ecData,
                   ecResponse>>

InitApp ==
    /\ sheets = {"Sheet1"}
    /\ grid = [n \in {"Sheet1"} |-> SparseSheet]
    /\ ChatInit
    /\ ExtrInit
    /\ activeTab = "upload"
    /\ EcInit
    /\ AppInit
    /\ PureInit

NextApp ==
    \/ SwitchTab
    \/ AppTypeInput
    \/ AppToggleAgentMode
    \/ AppSendMessage
    \/ ExListSheets
    \/ ExLoadRange
    \/ ExLoadFormat
    \/ ExSyncFails
    \/ PostFail
    \/ PostOkSmall
    \/ ExecQueue
    \/ ExecThrow
    \/ ExecSync
    \/ ExecSyncLost
    \/ ExecResolved
    \/ ExecRejected
    \/ RunErrorCheck
    \/ EcListSheets
    \/ EcLoadRange
    \/ EcSyncFails
    \/ EcPostFail
    \/ EcPostOk

SpecApp == InitApp /\ [][NextApp]_vars

\* The error checker on its own: the task pane on the Error Detection tab
\* over any of the documents, the chat idle.
InitErrors ==
    /\ \E doc \in Documents :
        /\ sheets = DOMAIN doc
        /\ grid = doc
    /\ ChatInit
    /\ ExtrInit
    /\ activeTab = "errors"
    /\ EcInit
    /\ AppInit
    /\ PureInit

NextErrors ==
    \/ SwitchTab
    \/ RunErrorCheck
    \/ EcListSheets
    \/ EcLoadRange
    \/ EcSyncFails
    \/ EcPostFail
    \/ EcPostOk
    \/ NavigateToError

SpecErrors == InitErrors /\ [][NextErrors]_vars

\* C19: no snapshot extraction, of the chat flow or of the error-check
\* flow, starts while a mutation batch that was started has not resolved
\* its sync.
ExtractionStarts ==
    \/ exPc' = "list" /\ exPc # "list"
    \/ ecPc' = "list" /\ ecPc # "list"
C19_NoExtractionDuringBatch == [][ExtractionStarts => execPc # "loop"]_vars

-----------------------------------------------------------------------------
(* The Error Detector's circular-reference pass over the formulas of one   *)
(* sheet.  The service behind check-errors is not part of the add-in; the  *)
(* pass is written here as the specification describes it: a directed      *)
(* graph from each formula cell to the cells its text names, walked depth   *)
(* first in ascending cell order with an on-stack marker.                   *)

\* The cells of the sheet in ascending (row, col) order.
DetOrder == <<"A1", "B1", "C1">>
DetCells == {DetOrder[i] : i \in 1..Len(DetOrder)}

\* The cells a formula text names; a text without the leading "=" is no formula.
Refs(t) ==
    IF IsFormulaText(t) THEN {t[i] : i \in 1..Len(t)} \cap DetCells ELSE {}
RefList(f, cell) == SelectSeq(DetOrder, LAMBDA n : n \in Refs(f[cell]))

Finding(cell, cycle) ==
    [kind |-> "circular-reference", cell |-> cell, cycle |-> cycle]
SeqRange(q) == {q[i] : i \in 1..Len(q)}

ReportCyclePerCell(findings, cyc) ==
    findings \o [i \in 1..Len(cyc) |-> Finding(cyc[i], SeqRange(cyc))]

\* A cycle closes on the stack: one Finding, at the cell of the cycle that
\* the walk reached first.
ReportCycle(findings, cyc) == Append(findings, Finding(cyc[1], SeqRange(cyc)))

RECURSIVE Walk(_, _, _, _)
RECURSIVE WalkRefs(_, _, _, _, _)
\* The walk reaches node with path on the stack.
Walk(f, node, path, st) ==
    IF node \in SeqRange(path)
    THEN LET k == CHOOSE i \in 1..Len(path) : path[i] = node
         IN  [st EXCEPT !.findings = ReportCycle(@, SubSeq(path, k, Len(path)))]
    ELSE IF node \in st.visited THEN st
    ELSE WalkRefs(f, RefList(f, node), 1, Append(path, node),
                  [st EXCEPT !.visited = @ \cup {node}])
WalkRefs(f, refs, i, path, st) ==
    IF i > Len(refs) THEN st
    ELSE WalkRefs(f, refs, i + 1, path, Walk(f, refs[i], path, st))

RECURSIVE DetectFrom(_, _, _)
DetectFrom(f, i, st) ==
    IF i > Len(DetOrder) THEN st.findings
    ELSE DetectFrom(f, i + 1,
                    IF DetOrder[i] \in st.visited THEN st
                    ELSE Walk(f, DetOrder[i], <<>>, st))

\* detect(snapshot), circular references only.
DetectCircular(f) == DetectFrom(f, 1, [visited |-> {}, findings |-> <<>>])

\* The formulas a cell of the snapshot may hold (<<>>: none).
DetTexts ==
    { <<>>, TxtNoMarker, <<"=", "A1">>, <<"=", "B1">>, <<"=", "C1">>,
      <<"=", "A1", "+", "B1">>, <<"=", "B1", "+", "C1">> }
Undetected == <<Finding("", {})>>

InitDetect ==
    /\ sheets = {"Sheet1"}
    /\ grid = [s \in {"Sheet1"} |-> [rc \in Cells |-> EmptyCell]]
    /\ ChatInit
    /\ ExtrInit
    /\ activeTab = "errors"
    /\ EcInit
    /\ AppInit
    /\ colIn = 0
    /\ colLetters = <<>>
    /\ colOut = -1
    /\ detIn \in [DetCells -> DetTexts]
    /\ detOut = Undetected

Detect ==
    /\ detOut = Undetected
    /\ detOut' = DetectCircular(detIn)
    /\ UNCHANGED <<docVars, chatVars, execVars, extrVars, activeTab, appVars, ecVars,
                   colIn, colLetters, colOut, detIn>>

NextDetect == Detect

SpecDetect == InitDetect /\ [][NextDetect]_vars

\* A cell reaches itself along one or more references.
RECURSIVE ReachIn(_, _, _, _)
ReachIn(f, a, b, n) ==
    \/ b \in Refs(f[a])
    \/ n > 1 /\ \E m \in Refs(f[a]) : ReachIn(f, m, b, n - 1)
OnCycle(f, a) == ReachIn(f, a, a, Len(DetOrder))

-----------------------------------------------------------------------------
(* Further properties of the executor. *)

\* C30: when an action throws while the batch is being queued, the sync of
\* that batch is never invoked: from the start of the loop to the throw, and
\* from then on until the next batch, no step changes the document, no sync
\* has been counted and no action is applied.
C30_ThrowLeavesDocumentUntouched ==
    [][/\ (execPc = "loop" /\ execPc' \in {"loop", "failed"}) =>
            grid' = grid /\ sheets' = sheets
       /\ execPc' = "failed" =>
            /\ grid' = grid /\ sheets' = sheets
            /\ syncCount' = 0
            /\ applied' = {}
            /\ queue' = <<>>]_vars

C30_Witness ==
    /\ execPc = "failed"
    /\ failedIdx = 3
    /\ queuedLog = <<1, 2>>
    /\ syncCount = 0
    /\ applied = {}
    /\ \A rc \in Cells : grid["Sheet1"][rc] = EmptyCell

-----------------------------------------------------------------------------
(* Further properties of the extraction and of the error checker. *)

\* The class of the status message: className of the div that shows status.
StatusClass == IF Len(ecErrors) = 0 THEN "success" ELSE "info"

\* C23: with no run in progress, the error checker shows a status message
\* in the success state if and only if the run of the mounted instance
\* completed and its response carried an empty list of errors; a run that
\* failed in the extraction or in the request is never shown that way.
C23_SuccessIffEmptyList ==
    ecPc = "idle" =>
        ((ecStatus # "" /\ StatusClass = "success") <=> ecResponse.errors = <<>>)

\* A step of extractModelSnapshot or of extractModelData.
ExtractionStep ==
    \/ exPc' # exPc
    \/ exReads' # exReads
    \/ exCells' # exCells
    \/ exSnap' # exSnap
    \/ ecData' # ecData
    \/ ecSheets' # ecSheets
    \/ ecPc \in {"list", "range"} /\ ecPc' # ecPc

\* C24: extraction has no side effect on the document: no step of
\* extractModelSnapshot or of extractModelData, resolving or failing,
\* changes a cell's value, formula or formatting, the set of sheets, or
\* what the workbook shows.
C24_ExtractionOnlyReads ==
    [][ExtractionStep => UNCHANGED <<sheets, grid, view>>]_vars

C24_Witness ==
    /\ Extracted
    /\ ecPc = "post"
    /\ Len(modelData["Sheet1"].cells) = 3
    /\ Len(ecData["Sheet1"].values) = 2
    /\ grid["Sheet1"] = SparseSheet

ReadsOf(n) == SelectSeq(exReads, LAMBDA r : r.sheet = n)
CoordsOf(n, cells) ==
    [i \in 1..Len(cells) |-> [sheet |-> n, row |-> cells[i].row, col |-> cells[i].col]]

C29_NavigateShowsFinding ==
    [][view' # view =>
        /\ UNCHANGED <<sheets, grid>>
        /\ \E i \in 1..Len(ecErrors) : view'.asked = ecErrors[i]
        /\ IF view'.asked.sheet \in sheets
           THEN /\ view'.sheet = view'.asked.sheet
                /\ view'.selection = view'.asked.cell
           ELSE /\ view'.sheet = view.sheet
                /\ view'.selection = view.selection]_vars

C29_Witness ==
    /\ view.asked = ErrorItem("Data", <<CellB1>>, "critical")
    /\ view.sheet = "Data"
    /\ view.selection = <<CellB1>>
    /\ grid["Data"] = OffsetSheet

-----------------------------------------------------------------------------
(* formatCell and clearRange over a workbook whose cells carry contents    *)
(* and formats.                                                            *)

\* A1 holds 1, bold on a yellow fill; B1 a formula; C2 a number shown with
\* two decimals in red.
StyledSheet ==
    SheetOf(<<1, 1>> :> [CellWith(TxtOne, TxtOne) EXCEPT !.bold = TRUE, !.fill = "yellow"]
            @@ <<1, 2>> :> CellWith(TxtOne, TxtFormula)
            @@ <<2, 3>> :> [CellWith(TxtZero, TxtZero) EXCEPT
                              !.numberFormat = "0.00", !.fontColor = "red"])

\* The actions of the responses: format options under the names the
\* executor reads and under the name fillColor, a format-less formatCell,
\* clears of a range and of a cell, and a write.
EditPool ==
    { FormatCell("Sheet1", CellB1, FormatOf(TRUE, "0%", "", "", "")),
      FormatCell("Sheet1", CellA1, FormatOf(FALSE, "", "", "blue", "")),
      FormatCell("Sheet1", CellC2, FormatOf(FALSE, "", "green", "", "white")),
      FormatCell("Sheet1", CellC1, NoFormat),
      ClearRange("Sheet1", RangeA1C2),
      ClearRange("Sheet1", <<CellB1>>),
      SetCellValue("Sheet1", CellA1, TxtZero) }
EditBatches == UNION { [1..n -> EditPool] : n \in 1..2 }

PostOkEdit == PostOkFrom(EditBatches \cup {<<>>})

InitEdit ==
    /\ sheets = {"Sheet1"}
    /\ grid = [n \in {"Sheet1"} |-> StyledSheet]
    /\ ChatInit
    /\ ExtrInit
    /\ activeTab = "chat"
    /\ EcInit
    /\ AppInit
    /\ PureInit

NextEdit ==
    \/ TypeInput
    \/ ToggleAgentMode
    \/ SendMessage
    \/ ExtractOk
    \/ ExtractFail
    \/ PostFail
    \/ PostOkEdit
    \/ ExecQueue
    \/ ExecThrow
    \/ ExecSync
    \/ ExecSyncLost
    \/ ExecResolved
    \/ ExecRejected

SpecEdit == InitEdit /\ [][NextEdit]_vars

\* What a cell holds and how it looks.
ContentOf(cell) == <<cell.value, cell.formula>>
LookOf(cell) == <<cell.bold, cell.numberFormat, cell.fill, cell.fontColor>>
\* The actions of type t the sync of this step carried out on cell rc.
AppliedOn(rc, types) ==
    {i \in applied' : actions[i].type \in types /\ rc \in AddrCells(actions[i].addr)}
Writers == {"setCellValue", "setFormula", "setRangeValues", "setRangeFormulas",
            "clearRange"}
Last(S) == CHOOSE i \in S : \A j \in S : j <= i

\* C25: a formatCell changes no value and no formula, and no format but
\* its target's: in every step a cell's value or formula changes only if a
\* carried-out action other than formatCell covers the cell, and a cell's
\* format changes only if a carried-out formatCell targets it.
C25_FormatCellFrame ==
    [][\A n \in sheets : \A rc \in Cells :
        /\ ContentOf(grid'[n][rc]) # ContentOf(grid[n][rc]) =>
                AppliedOn(rc, Writers) # {}
        /\ LookOf(grid'[n][rc]) # LookOf(grid[n][rc]) =>
                AppliedOn(rc, {"formatCell"}) # {}]_vars

C25_Witness ==
    /\ execPc = "done"
    /\ actions = <<FormatCell("Sheet1", CellB1, FormatOf(TRUE, "0%", "", "", ""))>>
    /\ applied = {1}
    /\ grid["Sheet1"][<<1, 2>>] =
         [CellWith(TxtOne, TxtFormula) EXCEPT !.bold = TRUE, !.numberFormat = "0%"]
    /\ \A rc \in Cells \ {<<1, 2>>} : grid["Sheet1"][rc] = StyledSheet[rc]

\* C26: after the sync, the target of the last formatCell carried out on a
\* cell shows every option the action supplied among bold, numberFormat,
\* fillColor and fontColor, and when that is the only formatCell on the
\* cell, every attribute whose option it did not supply is as before.
C26_SuppliedOptionsApplied ==
    [][\A rc \in Cells :
        LET on == AppliedOn(rc, {"formatCell"})
            fmt == actions[Last(on)].format[1]
            old == grid["Sheet1"][rc]
            new == grid'["Sheet1"][rc]
        IN  on # {} =>
            /\ fmt.bold => new.bold
            /\ fmt.numberFormat # "" => new.numberFormat = fmt.numberFormat
            /\ fmt.fillColor # "" => new.fill = fmt.fillColor
            /\ fmt.fontColor # "" => new.fontColor = fmt.fontColor
            /\ Cardinality(on) = 1 =>
                /\ ~fmt.bold => new.bold = old.bold
                /\ fmt.numberFormat = "" => new.numberFormat = old.numberFormat
                /\ fmt.fillColor = "" => new.fill = old.fill
                /\ fmt.fontColor = "" => new.fontColor = old.fontColor]_vars

\* C27: a clearRange that was carried out leaves every cell of its range
\* without value and formula (unless a later action of the batch wrote the
\* cell again) and with the format it had (unless a formatCell of the
\* batch targets the cell); a cell no carried-out action covers is as it
\* was.
C27_ClearRangeKeepsFormats ==
    [][\A rc \in Cells :
        LET cl == AppliedOn(rc, {"clearRange"})
            wr == AppliedOn(rc, Writers)
            old == grid["Sheet1"][rc]
            new == grid'["Sheet1"][rc]
        IN  /\ (cl # {} /\ Last(wr) \in cl) => ContentOf(new) = <<<<>>, <<>>>>
            /\ (cl # {} /\ AppliedOn(rc, {"formatCell"}) = {}) =>
                    LookOf(new) = LookOf(old)
            /\ (wr = {} /\ AppliedOn(rc, {"formatCell"}) = {}) => new = old]_vars

C27_Witness ==
    /\ execPc = "done"
    /\ actions = <<ClearRange("Sheet1", RangeA1C2)>>
    /\ applied = {1}
    /\ \A rc \in Cells :
        /\ ContentOf(grid["Sheet1"][rc]) = <<<<>>, <<>>>>
        /\ LookOf(grid["Sheet1"][rc]) = LookOf(StyledSheet[rc])
    /\ grid["Sheet1"][<<1, 1>>].bold /\ grid["Sheet1"][<<2, 3>>].fontColor = "red"

-----------------------------------------------------------------------------
(* The Error Detector over a snapshot of several sheets: per sheet in the  *)
(* snapshot's order, then per cell in ascending order, the malformed-      *)
(* formula check and the missing-reference check for a sheet name the      *)
(* snapshot does not have.  Written as the specification describes it.  A  *)
(* cross-sheet reference is the three tokens name, "!", address.            *)

XA1(n) == <<"=", n, "!", "A1">>
\* The formulas a cell of the snapshot may hold.
XTexts ==
    { <<>>, XA1("Sheet1"), XA1("Sheet3"), TxtDangling,
      <<"=", "Sheet3", "!", "A1", "+", "Sheet3", "!", "B1">>,
      <<"=", "Sheet1", "!", "B1", "+", "Sheet4", "!", "A1">> }
XCells == <<"A1", "B1">>
\* The sheets of the snapshot, in the order the snapshot lists them.
XOrders == { <<"Sheet2">>, <<"Sheet1", "Sheet2">>, <<"Sheet2", "Sheet1">>,
             <<"Sheet2", "Sheet3">> }

\* The sheet names a formula text references.
SheetRefs(t) == {t[i - 1] : i \in {j \in 2..Len(t) : t[j] = "!"}}

AbsentAny(t, names) == SheetRefs(t)

\* The referenced sheet names that the snapshot does not have.
Absent(t, names) == SheetRefs(t) \ names

XFinding(kind, n, c, severity) ==
    [kind |-> kind, sheet |-> n, cell |-> c, severity |-> severity]

\* The Findings of one cell: nothing for a cell without formula.
DetectCell(snap, n, c) ==
    LET t == snap.formulas[n][c]
    IN  IF ~IsFormulaText(t) THEN <<>>
        ELSE (IF ParsesAsFormula(t) THEN <<>>
              ELSE <<XFinding("malformed-formula", n, c, "critical")>>)
             \o (IF Absent(t, SeqRange(snap.order)) = {} THEN <<>>
                 ELSE <<XFinding("missing-reference", n, c, "critical")>>)

RECURSIVE DetectAt(_, _, _, _)
\* The Findings from cell j of sheet i of the traversal on.
DetectAt(snap, order, i, j) ==
    IF i > Len(order) THEN <<>>
    ELSE IF j > Len(XCells) THEN DetectAt(snap, order, i + 1, 1)
    ELSE DetectCell(snap, order[i], XCells[j]) \o DetectAt(snap, order, i, j + 1)

RECURSIVE Reorderings(_)
Reorderings(q) ==
    IF q = <<>> THEN {<<>>}
    ELSE UNION {{<<q[i]>> \o r :
                    r \in Reorderings(SelectSeq(q, LAMBDA x : x # q[i]))} :
                i \in 1..Len(q)}
AnyOrder(snap) == Reorderings(snap.order)

\* The order in which detect visits the sheets: the snapshot's.
Traversals(snap) == {snap.order}

InitFindings ==
    /\ sheets = {"Sheet1"}
    /\ grid = [s \in {"Sheet1"} |-> [rc \in Cells |-> EmptyCell]]
    /\ ChatInit
    /\ ExtrInit
    /\ activeTab = "errors"
    /\ EcInit
    /\ AppInit
    /\ colIn = 0
    /\ colLetters = <<>>
    /\ colOut = -1
    /\ \E order \in XOrders :
         \E f \in [SeqRange(order) -> [SeqRange(XCells) -> XTexts]] :
            detIn = [order |-> order, formulas |-> f]
    /\ detOut = <<>>

\* One call of detect on the snapshot; detOut lists the results of the calls.
DetectRun ==
    /\ Len(detOut) < 2
    /\ \E order \in Traversals(detIn) :
        detOut' = Append(detOut, DetectAt(detIn, order, 1, 1))
    /\ UNCHANGED <<docVars, chatVars, execVars, extrVars, activeTab, appVars, ecVars,
                   colIn, colLetters, colOut, detIn>>

NextFindings == DetectRun

SpecFindings == InitFindings /\ [][NextFindings]_vars

\* The missing-reference Findings of a result at cell c of sheet n.
MissingAt(found, n, c) ==
    {i \in 1..Len(found) :
        /\ found[i].kind = "missing-reference"
        /\ found[i].sheet = n
        /\ found[i].cell = c}

-----------------------------------------------------------------------------
(* One ModelChat through several messages: the responses carry no action, *)
(* one action the workbook carries out, one it refuses, or one the loop    *)
(* throws on.                                                               *)

ChatPool ==
    { SetCellValue("Sheet1", CellA1, TxtOne),
      SetCellValue("Ghost", CellC1, TxtOne),
      FormatCell("Sheet1", CellC1, NoFormat) }
ChatBatches == {<<a>> : a \in ChatPool}

PostOkChat == PostOkFrom(ChatBatches \cup {<<>>})

SendChat ==
    /\ SendStartUpTo(MaxChatSends)
    /\ UNCHANGED restVars

NextChat ==
    \/ TypeInput
    \/ ToggleAgentMode
    \/ SendChat
    \/ ExtractOk
    \/ ExtractFail
    \/ PostFail
    \/ PostOkChat
    \/ ExecQueue
    \/ ExecThrow
    \/ ExecSync
    \/ ExecSyncLost
    \/ ExecResolved
    \/ ExecRejected

SpecChat == Init /\ [][NextChat]_vars

\* Every awaited call of sendMessage resolves or rejects: the extraction,
\* the request, the passes of the loop, the sync, and executeActions.
SpecChatFair ==
    /\ SpecChat
    /\ WF_vars(ExtractOk \/ ExtractFail)
    /\ WF_vars(PostOkChat \/ PostFail)
    /\ WF_vars(ExecQueue \/ ExecThrow)
    /\ WF_vars(ExecSync \/ ExecSyncLost)
    /\ WF_vars(ExecResolved \/ ExecRejected)

\* A sendMessage passes its guard.
SendBegins == sends' = sends + 1

\* C31: at most one request is in flight: a sendMessage passes its guard
\* only when the input is not blank and the previous one has finished, its
\* extraction, its request and its executeActions included; loading is
\* true exactly while one is in flight.
C31_OneRequestInFlight ==
    /\ [](loading <=> chatPc # "idle")
    /\ [](execPc = "loop" => chatPc = "exec")
    /\ [][SendBegins =>
            /\ ~loading
            /\ chatPc = "idle"
            /\ execPc # "loop"
            /\ Trim(input) # <<>>]_vars

C31_Witness ==
    /\ sends = 2
    /\ chatPc = "extract"
    /\ loading
    /\ Len(messages) = 3
    /\ messages[2] = AnswerMessage
    /\ grid["Sheet1"][<<1, 1>>].value = TxtOne

\* C32: once no request is in flight the transcript alternates user,
\* assistant: every sendMessage that passed its guard has added one user
\* message and one assistant message after it.
C32_TranscriptAlternates ==
    ~loading =>
        /\ Len(messages) = 2 * sends
        /\ \A i \in 1..Len(messages) :
            messages[i].role = IF i % 2 = 1 THEN "user" ELSE "assistant"

\* C33: every sendMessage that sets loading sets it back: whenever loading
\* is true it is false again later, whichever of the awaited calls fails.
C33_LoadingIsReset == loading ~> ~loading

C33_Witness ==
    /\ ~loading
    /\ sends = 1
    /\ execPc = "syncFailed"
    /\ messages[Len(messages)] = ErrorMessage

\* C34: the agent-mode value that gates a response's actions is the one
\* the message was sent with: it is taken when sendMessage passes its
\* guard, no toggle changes it while the request is in flight, and when
\* the response arrives executeActions is called if and only if that value
\* is true and the response carries actions.
C34_GateUsesSentValue ==
    [][/\ SendBegins => sentAgentMode' = agentMode
       /\ ~SendBegins => sentAgentMode' = sentAgentMode
       /\ (chatPc = "post" /\ chatPc' # "post") =>
            (ExecStarts <=>
                /\ sentAgentMode
                /\ Len(actions') > 0
                /\ messages' = Append(messages, AnswerMessage))]_vars

C34_Witness ==
    /\ chatPc = "exec"
    /\ sentAgentMode
    /\ ~agentMode
    /\ execPc = "done"
    /\ grid["Sheet1"][<<1, 1>>].value = TxtOne

-----------------------------------------------------------------------------
(* The App's session list and the sessionIds of the chat requests.         *)

SessionIds == {"s1", "s2"}
upVars == <<upPc, upData, upAdd, upRuns, upError>>

\* sessions.map(s => s.sessionId)
IdsOf(list) == [i \in 1..Len(list) |-> list[i].sessionId]

\* [...prev, newSession]
With(list, id) == Append(list, [sessionId |-> id, filename |-> "pdf"])

WithoutLast(list, id) == SubSeq(list, 1, Len(list) - 1)

\* prev.filter(s => s.sessionId !== sessionId)
Without(list, id) == SelectSeq(list, LAMBDA x : x.sessionId # id)

AddSession ==
    /\ Len(sessions) < MaxSessions
    /\ \E id \in SessionIds : sessions' = With(sessions, id)
    /\ UNCHANGED <<docVars, chatVars, execVars, extrVars, activeTab, ecVars,
                   pureVars, sentSessionIds, removedId, upVars>>

\* The remove button of a listed session.
RemoveSession ==
    /\ \E id \in SeqRange(IdsOf(sessions)) :
        /\ sessions' = Without(sessions, id)
        /\ removedId' = id
    /\ UNCHANGED <<docVars, chatVars, execVars, extrVars, activeTab, ecVars,
                   pureVars, sentSessionIds, upVars>>

\* sendMessage with the sessions of its render.
SendSessions ==
    /\ SendStartUpTo(MaxChatSends)
    /\ sentSessionIds' = IdsOf(sessions)
    /\ UNCHANGED <<extrVars, activeTab, ecVars, pureVars, sessions, removedId,
                   upVars>>

PostOkPlain == PostOkFrom({<<>>})

NextSessions ==
    \/ TypeInput
    \/ SendSessions
    \/ ExtractOk
    \/ ExtractFail
    \/ PostFail
    \/ PostOkPlain
    \/ AddSession
    \/ RemoveSession

SpecSessions == Init /\ [][NextSessions]_vars

\* C35: a chat request carries exactly the ids of the sessions of the list
\* at the time the message is sent, in list order; removeSession(id) leaves
\* no session with that id and keeps the others in order, so no request
\* sent while id is off the list contains it; and addSession of an id the
\* list does not have followed by removeSession of it gives back the list.
C35_SessionIdsFollowList ==
    /\ [][(SendBegins =>
                /\ sentSessionIds' = IdsOf(sessions)
                /\ (removedId \notin SeqRange(IdsOf(sessions)) =>
                        removedId \notin SeqRange(sentSessionIds')))
          /\ (~SendBegins => sentSessionIds' = sentSessionIds)
          /\ (Len(sessions') < Len(sessions) =>
                /\ removedId' \in SeqRange(IdsOf(sessions))
                /\ removedId' \notin SeqRange(IdsOf(sessions'))
                /\ sessions' = SelectSeq(sessions,
                                         LAMBDA x : x.sessionId # removedId'))]_vars
    /\ [](\A id \in SessionIds \ SeqRange(IdsOf(sessions)) :
            Without(With(sessions, id), id) = sessions)

C35_Witness ==
    /\ sends = 2
    /\ chatPc = "post"
    /\ removedId = "s1"
    /\ IdsOf(sessions) = <<"s2">>
    /\ sentSessionIds = <<"s2">>

-----------------------------------------------------------------------------
(* PdfUpload: handleUpload and insertModelIntoExcel.  A worksheets.add is  *)
(* queued and takes effect at the next context.sync() of its run; adding a *)
(* name the workbook already has fails that sync.  The button is disabled  *)
(* while its PdfUpload is uploading; a PdfUpload shown again after a tab   *)
(* switch is a new one, and what the old one started goes on.  At most one *)
(* such older handleUpload is in flight here.                              *)

ModelSheets == <<"Assumptions", "Financials", "DCF Calculation">>
\* response.data: every part present with one cell, no part present, or
\* assumptions an empty list.
ModelDatas == {"full", "bare", "empty"}
sessVars == <<sessions, sentSessionIds, removedId>>

\* isNullObject of getItemOrNullObject(name) after the sync.
IsNullObject(name, shs) == name \notin shs

\* What the workbook makes of the queued worksheets.add(name), "" for none.
AddFails(name, shs) == name # "" /\ name \in shs
SheetsAfterAdd(name, shs) == IF name = "" THEN shs ELSE shs \cup {name}
GridAfterAdd(name, g, shs) ==
    [n \in SheetsAfterAdd(name, shs) |->
        IF n \in shs THEN g[n] ELSE [rc \in Cells |-> EmptyCell]]

\* The writes of the last sync on one of the three sheets: the part of
\* modelData at A1 (a formula on the DCF sheet), then the header row.
InsertInto(n, sh, data) ==
    [rc \in Cells |->
        LET written == IF data = "full" /\ rc = <<1, 1>>
                       THEN WriteText(sh[rc], IF n = ModelSheets[3]
                                              THEN TxtFormula ELSE TxtOne)
                       ELSE sh[rc]
        IN  IF rc[1] = 1
            THEN [written EXCEPT !.bold = TRUE, !.fill = "#667eea",
                                 !.fontColor = "white"]
            ELSE written]

uploading == upPc["mounted"] # "idle"

\* onClick of a tab button, seen from PdfUpload: leaving its tab unmounts
\* it, coming back mounts a new one with no file and uploading false.
SwitchTabUpload ==
    /\ \E tab \in {"upload", "errors", "chat"} :
        /\ tab # activeTab
        /\ activeTab' = tab
    /\ IF activeTab = "upload"
       THEN /\ upPc["orphan"] = "idle"
            /\ upPc' = [mounted |-> "idle", orphan |-> upPc["mounted"]]
            /\ upData' = [mounted |-> "none", orphan |-> upData["mounted"]]
            /\ upAdd' = [mounted |-> "", orphan |-> upAdd["mounted"]]
            /\ upError' = [mounted |-> "none", orphan |-> upError["mounted"]]
       ELSE UNCHANGED <<upPc, upData, upAdd, upError>>
    /\ UNCHANGED <<docVars, chatVars, execVars, extrVars, ecVars, pureVars,
                   sessVars, upRuns>>

\* handleUpload up to its request: a file is chosen and the button enabled.
UploadClick ==
    /\ activeTab = "upload"
    /\ ~uploading
    /\ upRuns < MaxRuns
    /\ upPc' = [upPc EXCEPT !["mounted"] = "post"]
    /\ upError' = [upError EXCEPT !["mounted"] = "none"]
    /\ UNCHANGED <<docVars, chatVars, execVars, extrVars, activeTab, ecVars,
                   pureVars, sessVars, upData, upAdd, upRuns>>

\* The upload request resolved: insertModelIntoExcel(response.data) begins.
InsertStart(r) ==
    /\ upPc[r] = "post"
    /\ \E data \in ModelDatas : upData' = [upData EXCEPT ![r] = data]
    /\ upPc' = [upPc EXCEPT ![r] = "1"]
    /\ upAdd' = [upAdd EXCEPT ![r] = ""]
    /\ UNCHANGED <<docVars, chatVars, execVars, extrVars, activeTab, ecVars,
                   pureVars, sessVars, upRuns, upError>>

\* A handleUpload ends in its catch: nothing queued is kept.
InsertRejected(r, err) ==
    /\ upPc' = [upPc EXCEPT ![r] = "idle"]
    /\ upAdd' = [upAdd EXCEPT ![r] = ""]
    /\ upError' = [upError EXCEPT ![r] = err]

\* The upload request rejected.
UploadPostFails(r) ==
    /\ upPc[r] = "post"
    /\ InsertRejected(r, "post")
    /\ UNCHANGED <<docVars, chatVars, execVars, extrVars, activeTab, ecVars,
                   pureVars, sessVars, upData, upRuns>>

\* The sync after getItemOrNullObject of sheet k: the add queued before it
\* is carried out, then the sheet is added to the queue if it is missing.
InsertCheck(r) ==
    /\ upPc[r] \in {"1", "2", "3"}
    /\ LET k == CASE upPc[r] = "1" -> 1 [] upPc[r] = "2" -> 2 [] OTHER -> 3
       IN  IF AddFails(upAdd[r], sheets)
           THEN /\ InsertRejected(r, "ItemAlreadyExists")
                /\ UNCHANGED docVars
           ELSE /\ sheets' = SheetsAfterAdd(upAdd[r], sheets)
                /\ grid' = GridAfterAdd(upAdd[r], grid, sheets)
                /\ upAdd' = [upAdd EXCEPT ![r] =
                                IF IsNullObject(ModelSheets[k], sheets')
                                THEN ModelSheets[k] ELSE ""]
                /\ upPc' = [upPc EXCEPT ![r] =
                                CASE k = 1 -> "2" [] k = 2 -> "3"
                                  [] OTHER -> "write"]
                /\ UNCHANGED upError
    /\ UNCHANGED <<chatVars, execVars, extrVars, activeTab, ecVars, pureVars,
                   sessVars, upData, upRuns>>

\* modelData.assumptions is an empty list: assumptions[0].length throws.
InsertThrows(r) ==
    /\ upPc[r] = "write"
    /\ upData[r] = "empty"
    /\ InsertRejected(r, "TypeError")
    /\ UNCHANGED <<docVars, chatVars, execVars, extrVars, activeTab, ecVars,
                   pureVars, sessVars, upData, upRuns>>

\* The last sync: the add queued for the third sheet, the values and the
\* header formats.
InsertWrite(r) ==
    /\ upPc[r] = "write"
    /\ upData[r] # "empty"
    /\ IF AddFails(upAdd[r], sheets)
       THEN /\ InsertRejected(r, "ItemAlreadyExists")
            /\ UNCHANGED <<docVars, upRuns>>
       ELSE /\ sheets' = SheetsAfterAdd(upAdd[r], sheets)
            /\ grid' = [n \in sheets' |->
                          IF n \in SeqRange(ModelSheets)
                          THEN InsertInto(n,
                                   GridAfterAdd(upAdd[r], grid, sheets)[n],
                                   upData[r])
                          ELSE grid[n]]
            /\ upPc' = [upPc EXCEPT ![r] = "idle"]
            /\ upAdd' = [upAdd EXCEPT ![r] = ""]
            /\ upRuns' = upRuns + 1
            /\ UNCHANGED upError
    /\ UNCHANGED <<chatVars, execVars, extrVars, activeTab, ecVars, pureVars,
                   sessVars, upData>>

\* A sync of the run rejects before the workbook has carried anything out.
InsertSyncFails(r) ==
    /\ upPc[r] \in {"1", "2", "3", "write"}
    /\ InsertRejected(r, "GeneralException")
    /\ UNCHANGED <<docVars, chatVars, execVars, extrVars, activeTab, ecVars,
                   pureVars, sessVars, upData, upRuns>>

\* The upload tab over a workbook that has any of the three sheets already.
InitUpload ==
    /\ \E present \in SUBSET SeqRange(ModelSheets) :
        /\ sheets = {"Sheet1"} \cup present
        /\ grid = [n \in {"Sheet1"} \cup present |-> [rc \in Cells |-> EmptyCell]]
    /\ ChatInit
    /\ ExtrInit
    /\ activeTab = "upload"
    /\ EcInit
    /\ AppInit
    /\ PureInit

NextUpload ==
    \/ SwitchTabUpload
    \/ UploadClick
    \/ \E r \in UploadRuns : InsertStart(r)
    \/ \E r \in UploadRuns : UploadPostFails(r)
    \/ \E r \in UploadRuns : InsertCheck(r)
    \/ \E r \in UploadRuns : InsertThrows(r)
    \/ \E r \in UploadRuns : InsertWrite(r)
    \/ \E r \in UploadRuns : InsertSyncFails(r)

SpecUpload == InitUpload /\ [][NextUpload]_vars

====
